---- MODULE Spec2Model ----
(***************************************************************************)
(* A state-machine model of the finite-volume solver application           *)
(* (solvers/solver/solver.cpp with util/util.h): main(), the four solver   *)
(* drivers piso, diffusion, transport and potential, Mesh::calc_walldist,  *)
(* and the option matching of Util::Option / Util::compare.                *)
(*                                                                         *)
(* The mesh is abstracted to one cell: a field is one Scalar, a matrix is  *)
(* its diagonal `ap` and its source `Su`.  Scalars are exact rationals.    *)
(* The discretisation operators and the linear solver live outside these   *)
(* files; a call to one of them returns any value of the case's range      *)
(* `input.vals`.                                                           *)
(***************************************************************************)
EXTENDS Integers, Sequences, FiniteSets, TLC

(***************************************************************************)
(* Bounds of the model.                                                    *)
(***************************************************************************)
\* largest Controls::end_step
MaxStep == 4
\* largest n_PISO, n_ORTHO and n_DEFERRED
MaxIter == 2
\* largest Controls::write_interval
MaxInterval == 2
\* largest value the external operators return
MaxVal == 1
\* longest option list and longest text in the option-matching specification
MaxLen == 2

(***************************************************************************)
(* Scalars: normalised fractions <<numerator, denominator>>.               *)
(***************************************************************************)
Abs(x) == IF x < 0 THEN -x ELSE x

RECURSIVE Gcd(_, _)
Gcd(a, b) == IF b = 0 THEN a ELSE Gcd(b, a % b)

Norm(n, d) ==
    LET s == IF d < 0 THEN -1 ELSE 1
        g == Gcd(Abs(n), Abs(d))
    IN  <<(s * n) \div g, (s * d) \div g>>

R(n) == <<n, 1>>
Frac(n, d) == Norm(n, d)
RAdd(a, b) == Norm(a[1] * b[2] + b[1] * a[2], a[2] * b[2])
RNeg(a) == <<-a[1], a[2]>>
RSub(a, b) == RAdd(a, RNeg(b))
RMul(a, b) == Norm(a[1] * b[1], a[2] * b[2])
RInv(a) == Norm(a[2], a[1])
RDiv(a, b) == RMul(a, RInv(b))
RLess(a, b) == a[1] * b[2] < b[1] * a[2]
Zero == R(0)
One == R(1)

\* sqrt is kept symbolic: the value whose square is x
Sqrt(x) == [sqrt |-> x]

(***************************************************************************)
(* Text: a std::string is a sequence of one-character strings.             *)
(***************************************************************************)
LowerCase == <<"a","b","c","d","e","f","g","h","i","j","k","l","m",
               "n","o","p","q","r","s","t","u","v","w","x","y","z">>
UpperCase == <<"A","B","C","D","E","F","G","H","I","J","K","L","M",
               "N","O","P","Q","R","S","T","U","V","W","X","Y","Z">>

\* a toupper that leaves every character as it is
toupperNone(c) == c

\* toupper in the "C" locale
toupper(c) ==
    IF \E x \in 1..26 : LowerCase[x] = c
    THEN UpperCase[CHOOSE x \in 1..26 : LowerCase[x] = c]
    ELSE c

\* transform(t.begin(),t.end(),t.begin(),toupper)
transform(s) == [x \in 1..Len(s) |-> toupper(s[x])]

\* Util::compare: 0 when the upper-cased texts are equal, 1 otherwise
compare(s1, s2) == IF transform(s1) # transform(s2) THEN 1 ELSE 0

\* the loop of Option::getID: the first index (from 0) whose name compares equal
RECURSIVE getIDFrom(_, _, _)
getIDFrom(list, str, x) ==
    IF x >= Len(list) THEN -1
    ELSE IF compare(list[x + 1], str) = 0 THEN x
    ELSE getIDFrom(list, str, x + 1)

\* whether Option::getID prints "Unknown parameter"
getIDUnknown(list, str) == getIDFrom(list, str, 0) = -1

\* Option::getID: the index found, and 0 after the diagnostic
getID(list, str) == IF getIDUnknown(list, str) THEN 0 ELSE getIDFrom(list, str, 0)

\* std::string::find(sub) != npos
RECURSIVE FindFrom(_, _, _)
FindFrom(s, sub, x) ==
    IF x + Len(sub) - 1 > Len(s) THEN FALSE
    ELSE IF SubSeq(s, x, x + Len(sub) - 1) = sub THEN TRUE
    ELSE FindFrom(s, sub, x + 1)

Contains(s, sub) == FindFrom(s, sub, 1)

(***************************************************************************)
(* The names the program compares texts with.                              *)
(***************************************************************************)
Str_piso == <<"p","i","s","o">>
Str_diffusion == <<"d","i","f","f","u","s","i","o","n">>
Str_transport == <<"t","r","a","n","s","p","o","r","t">>
Str_potential == <<"p","o","t","e","n","t","i","a","l">>
Str_WALL == <<"W","A","L","L">>

\* enum TurbModel {NONE,MIXING_LENGTH,KE,RNG_KE,REALIZABLE_KE,KW,LES}
TurbList == << <<"N","O","N","E">>,
               <<"M","I","X","I","N","G","_","L","E","N","G","T","H">>,
               <<"K","E">>,
               <<"R","N","G","_","K","E">>,
               <<"R","E","A","L","I","Z","A","B","L","E","_","K","E">>,
               <<"K","W">>,
               <<"L","E","S">> >>
NONE == 0
MIXING_LENGTH == 1
KE == 2
LES == 6

\* BoolOption: Option(v,2,"NO","YES")
BoolList == << <<"N","O">>, <<"Y","E","S">> >>

(***************************************************************************)
(* State.                                                                  *)
(***************************************************************************)
VARIABLES
    input,          \* the case: configuration file, mesh patches, value range
    pc,             \* the statement the process is at
    driver,         \* the solver function main() called, "none" before
    exitCode,       \* -1 while the process runs, then its exit code
    Terminated,     \* Util::Terminated
    cout,           \* diagnostics printed so far
    sname,          \* main: the text read for `solver`
    ParamList_list, \* Util::ParamList::list, the names of the registered lists
    Controls,       \* the Controls namespace
    gBoundaries,    \* Mesh::gBoundaries, the patch names
    AllBConditions, \* Mesh::AllBConditions
    turb_model, LESaverage, needWallDist,
    n_PISO, n_ORTHO, n_DEFERRED, Steady, time_factor,
    step, start, i, n, j, k,
    U, p, T, gP, F, M, api, po,
    Uavg, Ustd, pavg, pstd,
    samples,        \* history: the samples added to the running sums
    written,        \* the calls of Mesh::write_fields / Util::write_vtk, in order
    emitted,        \* the LES statistics of the last checkpoint written
    hist,           \* history: the operations of the current deferred pass
    optList, optStr, optVal, cmpRes   \* an Option, a text read into it, results

mainVars == <<driver, exitCode, cout, sname, ParamList_list, gBoundaries>>
cfgVars == <<Controls, turb_model, LESaverage, needWallDist,
             n_PISO, n_ORTHO, n_DEFERRED, Steady, time_factor>>
loopVars == <<step, start, i, n, j, k>>
fieldVars == <<U, p, T, gP, F, M, api, po>>
lesVars == <<Uavg, Ustd, pavg, pstd, samples>>
outVars == <<written, emitted, AllBConditions>>
optVars == <<optList, optStr, optVal, cmpRes>>
vars == <<input, pc, Terminated, mainVars, cfgVars, loopVars, fieldVars,
          lesVars, outVars, hist, optVars>>

STEADY == "STEADY"
TRANSIENT == "TRANSIENT"

\* a matrix that is not in scope
NoMatrix == [ap |-> Zero, Su |-> Zero]
NoSamples == [n |-> 0, U |-> Zero, UU |-> Zero, p |-> Zero, pp |-> Zero]
NoStats == [index |-> -1, Uavg |-> Zero, Ustd |-> Sqrt(Zero),
            pavg |-> Zero, pstd |-> Sqrt(Zero)]

\* GENERAL::density, and the under-relaxation factors of piso, diffusion, transport
rho == One
velocity_UR == Frac(8, 10)
pressure_UR == Frac(5, 10)
t_UR == One

(***************************************************************************)
(* The cases the specifications start from.                                *)
(***************************************************************************)
Str_PISO == <<"P","I","S","O">>
Str_Piso == <<"P","i","s","o">>
Str_Diffusion == <<"D","i","f","f","u","s","i","o","n">>
Str_TRANSPORT == <<"T","R","A","N","S","P","O","R","T">>
Str_simple == <<"s","i","m","p","l","e">>
Str_pis == <<"p","i","s">>
Str_ke == <<"k","e">>
Str_les == <<"l","e","s">>
Str_Mixing_Length == <<"M","i","x","i","n","g","_","L","e","n","g","t","h">>
Str_none == <<"n","o","n","e">>
Str_kepsilon == <<"k","e","p","s","i","l","o","n">>
Str_yes == <<"y","e","s">>
Str_maybe == <<"m","a","y","b","e">>
Str_INLET == <<"I","N","L","E","T">>
Str_TOPWALL == <<"T","O","P","W","A","L","L">>
Str_wall == <<"w","a","l","l">>

SolverTexts == {Str_piso, Str_PISO, Str_Piso, Str_Diffusion, Str_diffusion,
                Str_TRANSPORT, Str_transport, Str_potential, Str_simple, Str_pis}
TurbTexts == {TurbList[1], TurbList[3], Str_ke, Str_les, TurbList[7],
              Str_Mixing_Length, Str_none, Str_kepsilon}
BoolTexts == {BoolList[1], BoolList[2], Str_yes, Str_maybe}
\* the patches of a mesh, in the order of the std::map that holds them
PatchLists == {<<Str_INLET, Str_TOPWALL>>, <<Str_WALL, Str_wall>>}

Thetas == {Frac(1, 2), One, Frac(3, 2)}

ControlsOf(s0, e, w, st, th) ==
    [start_step |-> s0, end_step |-> e, write_interval |-> w,
     state |-> st, time_scheme_factor |-> th, dt |-> One]

CaseOf(sv, tm, la, np, no, nd, c, vs) ==
    [solver |-> sv, n_hosts |-> 1, cdOk |-> TRUE, patches |-> <<Str_INLET, Str_TOPWALL>>,
     turbulence_model |-> tm, les_average |-> la,
     n_PISO |-> np, n_ORTHO |-> no, n_DEFERRED |-> nd,
     controls |-> c, vals |-> vs]

\* one short case per driver, per patch set and per start-up failure
BaseCases ==
    {CaseOf(sv, TurbList[1], BoolList[1], 1, 0, 0,
            ControlsOf(0, 1, 1, st, One), {1}) :
        sv \in {Str_piso, Str_diffusion, Str_transport, Str_potential},
        st \in {STEADY, TRANSIENT}}
    \cup {[CaseOf(Str_piso, tm, BoolList[2], 1, 0, 0,
                  ControlsOf(0, 1, 1, TRANSIENT, Frac(1, 2)), {1})
             EXCEPT !.patches = ps, !.n_hosts = h, !.cdOk = ok] :
            tm \in {TurbList[7]}, ps \in PatchLists, h \in {1, 2}, ok \in BOOLEAN}

\* the texts of the configuration file
TextCases ==
    {[CaseOf(sv, tm, la, 1, 0, 0, ControlsOf(0, 1, 1, TRANSIENT, One), {1})
        EXCEPT !.n_hosts = h, !.cdOk = ok] :
        sv \in SolverTexts, tm \in TurbTexts, la \in BoolTexts,
        h \in {1, 2}, ok \in BOOLEAN}

\* the loop counts of piso
IterCases ==
    {CaseOf(Str_piso, TurbList[1], BoolList[1], np, no, nd,
            ControlsOf(0, 2, 1, st, th), {1}) :
        np \in 0..MaxIter, no \in 0..MaxIter, nd \in 0..MaxIter,
        st \in {STEADY, TRANSIENT}, th \in {Frac(1, 2), One}}

\* the time loop of the three time-stepping drivers
StepCases ==
    {CaseOf(sv, tm, BoolList[1], 1, 0, 1, ControlsOf(s0, e, w, st, One), {1}) :
        sv \in {Str_piso, Str_diffusion, Str_transport},
        tm \in {TurbList[1], TurbList[2]},
        s0 \in 0..MaxStep, e \in 0..MaxStep, w \in 1..MaxInterval,
        st \in {STEADY, TRANSIENT}}

\* the arithmetic of one or two steps
NumCases ==
    {CaseOf(sv, TurbList[1], BoolList[1], np, 0, 0,
            ControlsOf(0, 1, 1, st, th), 0..MaxVal) :
        sv \in {Str_piso, Str_diffusion, Str_transport},
        np \in 1..2, st \in {STEADY, TRANSIENT}, th \in Thetas}

\* steady runs with deferred passes configured
DeferredCases ==
    {CaseOf(sv, TurbList[1], BoolList[1], 1, no, 1,
            ControlsOf(0, 1, 1, STEADY, One), 0..MaxVal) :
        sv \in {Str_piso, Str_diffusion, Str_transport}, no \in 0..1}

\* the LES statistics, from a first run and from a restart
LesCases ==
    {CaseOf(Str_piso, TurbList[1], BoolList[2], 1, 0, 0,
            ControlsOf(s0, e, w, TRANSIENT, One), 0..MaxVal) :
        s0 \in 0..2, e \in 1..3, w \in 1..MaxInterval}

InitWith(cases, at) ==
    /\ input \in cases
    /\ pc = at
    /\ driver = "none"
    /\ exitCode = -1
    /\ Terminated = FALSE
    /\ cout = {}
    /\ sname = <<>>
    /\ ParamList_list = {}
    /\ Controls = ControlsOf(0, 0, 1, STEADY, One)
    /\ gBoundaries = <<>>
    /\ AllBConditions = <<>>
    /\ turb_model = KE
    /\ LESaverage = 0
    /\ needWallDist = FALSE
    /\ n_PISO = 1
    /\ n_ORTHO = 0
    /\ n_DEFERRED = 0
    /\ Steady = FALSE
    /\ time_factor = One
    /\ step = 0 /\ start = 0 /\ i = 0 /\ n = 0 /\ j = 0 /\ k = 0
    /\ U = Zero /\ p = Zero /\ T = Zero /\ gP = Zero /\ F = Zero
    /\ M = NoMatrix /\ api = Zero /\ po = Zero
    /\ Uavg = Zero /\ Ustd = Zero /\ pavg = Zero /\ pstd = Zero
    /\ samples = NoSamples
    /\ written = <<>>
    /\ emitted = NoStats
    /\ hist = <<>>
    /\ optVal = 0 /\ cmpRes = <<>>

NoOption == optList = <<>> /\ optStr = <<>>

Init == InitWith(BaseCases \cup TextCases \cup IterCases \cup StepCases, "main") /\ NoOption
InitNum == InitWith(BaseCases \cup NumCases \cup DeferredCases, "main") /\ NoOption
InitLes == InitWith(BaseCases \cup LesCases, "main") /\ NoOption

(***************************************************************************)
(* The signal handler: sets the flag at any moment of a running process.   *)
(***************************************************************************)
SignalHandler ==
    /\ exitCode = -1
    /\ ~Terminated
    /\ Terminated' = TRUE
    /\ UNCHANGED <<input, pc, mainVars, cfgVars, loopVars, fieldVars,
                   lesVars, outVars, hist, optVars>>

(***************************************************************************)
(* main()                                                                  *)
(***************************************************************************)
\* lines 46-52: the "general" list is registered and read
MainReadParams ==
    /\ pc = "main"
    /\ ParamList_list' = ParamList_list \cup {"general"}
    /\ sname' = input.solver
    /\ pc' = "main_mesh"
    /\ UNCHANGED <<input, Terminated, driver, exitCode, cout, gBoundaries,
                   cfgVars, loopVars, fieldVars, lesVars, outVars, hist, optVars>>

\* lines 55-64: enter the rank's directory, load the mesh
MainMesh ==
    /\ pc = "main_mesh"
    /\ IF input.n_hosts > 1 /\ ~input.cdOk
       THEN /\ exitCode' = 1
            /\ pc' = "exit"
            /\ UNCHANGED gBoundaries
       ELSE /\ gBoundaries' = input.patches
            /\ pc' = "main_call"
            /\ UNCHANGED exitCode
    /\ UNCHANGED <<input, Terminated, driver, cout, sname, ParamList_list,
                   cfgVars, loopVars, fieldVars, lesVars, outVars, hist, optVars>>

\* lines 67-75: the driver the solver name selects
SelectSolver(name) ==
    IF compare(name, Str_piso) = 0 THEN "piso"
    ELSE IF compare(name, Str_diffusion) = 0 THEN "diffusion"
    ELSE IF compare(name, Str_transport) = 0 THEN "transport"
    ELSE IF compare(name, Str_potential) = 0 THEN "potential"
    ELSE "none"

MainCallSolver ==
    /\ pc = "main_call"
    /\ driver' = SelectSolver(sname)
    /\ pc' = IF driver' = "none" THEN "main_return" ELSE driver'
    /\ UNCHANGED <<input, Terminated, exitCode, cout, sname, ParamList_list,
                   gBoundaries, cfgVars, loopVars, fieldVars, lesVars, outVars,
                   hist, optVars>>

\* line 77
MainReturn ==
    /\ pc = "main_return"
    /\ exitCode' = 0
    /\ ParamList_list' = ParamList_list \ {"general"}
    /\ pc' = "exit"
    /\ UNCHANGED <<input, Terminated, driver, cout, sname, gBoundaries,
                   cfgVars, loopVars, fieldVars, lesVars, outVars, hist, optVars>>

(***************************************************************************)
(* Operators of the field and matrix algebra used by the drivers.          *)
(***************************************************************************)
\* equal(Scalar,Scalar)
equal(a, b) == a = b

\* M * phi on one cell
MatMul(m, phi) == RMul(m.ap, phi)

\* M *= c
MatScale(m, c) == [ap |-> RMul(m.ap, c), Su |-> RMul(m.Su, c)]

\* M.Relax(UR): the diagonal divided by UR, (1-UR)/UR * ap * phi added to Su
MatRelax(m, phi, ur) ==
    [ap |-> RDiv(m.ap, ur),
     Su |-> RAdd(m.Su, RMul(RDiv(RSub(One, ur), ur), RMul(m.ap, phi)))]

\* ddt(phi,rho): rho*V/dt on the diagonal, rho*V*phi/dt in the source (V = 1)
ddt(phi, r) == [ap |-> RDiv(r, Controls.dt), Su |-> RDiv(RMul(r, phi), Controls.dt)]

MatAdd(m1, m2) == [ap |-> RAdd(m1.ap, m2.ap), Su |-> RAdd(m1.Su, m2.Su)]

\* p.Relax(po,UR): the blend of the old and the new value
FieldRelax(new, old, ur) == RAdd(old, RMul(ur, RSub(new, old)))

\* flx(rho * U) through a face of unit area
flx(ru) == ru

\* the values a discretisation operator or the linear solver may return
Vals == {R(v) : v \in input.vals}
\* the diagonals an assembled matrix may have
Diagonals == {R(v + 1) : v \in input.vals}

\* the rewrite with M * phi taken after M *= theta
CrankNicolsonScaledFirst(m, phi, theta) ==
    LET scaled == MatScale(m, theta)
        mphi == MatMul(scaled, phi)
    IN  [scaled EXCEPT !.Su = RSub(@, RMul(RSub(One, theta), mphi))]

\* the Crank-Nicolson rewrite of lines 266-270, 416-420 and 496-500
CrankNicolson(m, phi, theta) ==
    LET mphi == MatMul(m, phi)
        scaled == MatScale(m, theta)
    IN  [scaled EXCEPT !.Su = RSub(@, RMul(RSub(One, theta), mphi))]

\* whether the rewrite is done
DoCrankNicolson(theta) == ~equal(theta, One)

\* lines 262-273, 413-422 and 493-502: relax if steady, otherwise the time terms
TimeTerms(m, phi, ur) ==
    IF Steady
    THEN MatRelax(m, phi, ur)
    ELSE MatAdd(IF DoCrankNicolson(time_factor)
                THEN CrankNicolson(m, phi, time_factor)
                ELSE m,
                ddt(phi, rho))

\* what TimeTerms adds to the history of the pass
TimeEvents ==
    IF Steady THEN <<"relax">>
    ELSE IF DoCrankNicolson(time_factor) THEN <<"cn", "ddt">>
    ELSE <<"ddt">>

(***************************************************************************)
(* Start-up shared by the time-stepping drivers.                           *)
(***************************************************************************)
\* a first step that repeats the step of the checkpoint read
StartOfNoIncrement(st) == Controls.write_interval * st

\* lines 216-217, 386-387, 463-464, 549-550
StartStep == Controls.start_step \div Controls.write_interval
StartOf(st) == Controls.write_interval * st + 1

\* the boundary conditions Mesh::read_fields registers for a field
FieldBCs(fName, cname) ==
    [x \in 1..Len(gBoundaries) |->
        [fName |-> fName, bname |-> gBoundaries[x], cname |-> cname, value |-> Zero]]

WriteCall(site, at, index) == [site |-> site, i |-> at, index |-> index]

\* the test of lines 331, 428 and 507
IsWriteStep(at) == (at % Controls.write_interval) = 0

(***************************************************************************)
(* Mesh::calc_walldist                                                     *)
(***************************************************************************)
\* boundary conditions for the WALL patches only
WallDistBCsWallsOnly ==
    LET walls == SelectSeq(gBoundaries, LAMBDA b : Contains(b, Str_WALL))
    IN  [x \in 1..Len(walls) |->
            [fName |-> "phi", bname |-> walls[x], cname |-> "DIRICHLET", value |-> Zero]]

\* lines 591-604: one boundary condition of phi per patch
WallDistBCs ==
    [x \in 1..Len(gBoundaries) |->
        [fName |-> "phi", bname |-> gBoundaries[x],
         cname |-> IF Contains(gBoundaries[x], Str_WALL) THEN "DIRICHLET" ELSE "NEUMANN",
         value |-> Zero]]

(***************************************************************************)
(* piso()                                                                  *)
(***************************************************************************)
\* lines 124-153: the "piso" list, its options and their texts
PisoReadParams ==
    /\ pc = "piso"
    /\ ParamList_list' = ParamList_list \cup {"piso"}
    /\ n_PISO' = input.n_PISO
    /\ n_ORTHO' = input.n_ORTHO
    /\ n_DEFERRED' = input.n_DEFERRED
    /\ turb_model' = getID(TurbList, input.turbulence_model)
    /\ LESaverage' = getID(BoolList, input.les_average)
    /\ cout' = cout
          \cup (IF getIDUnknown(TurbList, input.turbulence_model)
                THEN {<<"Unknown parameter", input.turbulence_model>>} ELSE {})
          \cup (IF getIDUnknown(BoolList, input.les_average)
                THEN {<<"Unknown parameter", input.les_average>>} ELSE {})
    /\ pc' = "piso_turb"
    /\ UNCHANGED <<input, Terminated, driver, exitCode, sname, gBoundaries,
                   Controls, needWallDist, Steady, time_factor,
                   loopVars, fieldVars, lesVars, outVars, hist, optVars>>

\* a wall distance for the LES model only
NeedsWallDistLesOnly(model) == model = LES

\* lines 155-198: the turbulence model, then the controls
NeedsWallDist(model) == model \in {MIXING_LENGTH, LES}

PisoSelectTurb ==
    /\ pc = "piso_turb"
    /\ needWallDist' = NeedsWallDist(turb_model)
    /\ Controls' = input.controls
    /\ pc' = "piso_read"
    /\ UNCHANGED <<input, Terminated, mainVars, turb_model, LESaverage,
                   n_PISO, n_ORTHO, n_DEFERRED, Steady, time_factor,
                   loopVars, fieldVars, lesVars, outVars, hist, optVars>>

\* lines 214-219: the fields of the start checkpoint are read
PisoReadFields ==
    /\ pc = "piso_read"
    /\ step' = StartStep
    /\ start' = StartOf(step')
    /\ U' \in Vals
    /\ p' \in Vals
    /\ IF LESaverage # 0 /\ step' > 0
       THEN /\ Uavg' \in Vals /\ Ustd' \in Vals
            /\ pavg' \in Vals /\ pstd' \in Vals
       ELSE UNCHANGED <<Uavg, Ustd, pavg, pstd>>
    /\ AllBConditions' = AllBConditions \o FieldBCs("U", "DIRICHLET")
                                        \o FieldBCs("p", "NEUMANN")
    /\ written' = Append(written, WriteCall("start", 0, step'))
    /\ pc' = "piso_walldist"
    /\ UNCHANGED <<input, Terminated, mainVars, cfgVars, i, n, j, k,
                   T, gP, F, M, api, po, samples, emitted, hist, optVars>>

\* lines 221-226, with the boundary loop of Mesh::calc_walldist (lines 585-605)
PisoWallDist ==
    /\ pc = "piso_walldist"
    /\ IF needWallDist
       THEN /\ AllBConditions' = AllBConditions \o WallDistBCs
            /\ pc' = "walldist_poisson"
       ELSE /\ UNCHANGED AllBConditions
            /\ pc' = "piso_time"
    /\ UNCHANGED <<input, Terminated, mainVars, cfgVars, loopVars, fieldVars,
                   lesVars, written, emitted, hist, optVars>>

\* lines 606-621: the Poisson solve for phi, yWall, and the write of yWall
WallDistSolve ==
    /\ pc = "walldist_poisson"
    /\ written' = Append(written, WriteCall("walldist", 0, step))
    /\ pc' = "piso_time"
    /\ UNCHANGED <<input, Terminated, mainVars, cfgVars, loopVars, fieldVars,
                   lesVars, AllBConditions, emitted, hist, optVars>>

\* a steady run that keeps the configured n_DEFERRED
PisoTimeKeepDeferred ==
    /\ pc = "piso_time"
    /\ time_factor' = Controls.time_scheme_factor
    /\ Steady' = (Controls.state = STEADY)
    /\ UNCHANGED n_DEFERRED
    /\ \E g \in Vals : gP' = RNeg(g)
    /\ F' = flx(RMul(rho, U))
    /\ i' = start
    /\ pc' = "piso_loop"
    /\ UNCHANGED <<input, Terminated, mainVars, Controls, turb_model, LESaverage,
                   needWallDist, n_PISO, n_ORTHO, step, start, n, j, k,
                   U, p, T, M, api, po, lesVars, outVars, hist, optVars>>

\* lines 227-234
PisoTime ==
    /\ pc = "piso_time"
    /\ time_factor' = Controls.time_scheme_factor
    /\ Steady' = (Controls.state = STEADY)
    /\ n_DEFERRED' = IF Steady' THEN 0 ELSE n_DEFERRED
    /\ \E g \in Vals : gP' = RNeg(g)
    /\ F' = flx(RMul(rho, U))
    /\ i' = start
    /\ pc' = "piso_loop"
    /\ UNCHANGED <<input, Terminated, mainVars, Controls, turb_model, LESaverage,
                   needWallDist, n_PISO, n_ORTHO, step, start, n, j, k,
                   U, p, T, M, api, po, lesVars, outVars, hist, optVars>>

\* line 236: the test of the time loop
ContinueLoop == i <= Controls.end_step

PisoLoop ==
    /\ pc = "piso_loop"
    /\ IF ContinueLoop
       THEN /\ n' = 0
            /\ pc' = "piso_deferred"
       ELSE /\ pc' = "piso_return"
            /\ UNCHANGED n
    /\ UNCHANGED <<input, Terminated, mainVars, cfgVars, step, start, i, j, k,
                   fieldVars, lesVars, outVars, hist, optVars>>

\* line 246: the test of the deferred-correction loop
PisoDeferred ==
    /\ pc = "piso_deferred"
    /\ IF n <= n_DEFERRED
       THEN /\ hist' = <<>>
            /\ pc' = "piso_div"
       ELSE /\ pc' = "piso_average"
            /\ UNCHANGED hist
    /\ UNCHANGED <<input, Terminated, mainVars, cfgVars, loopVars, fieldVars,
                   lesVars, outVars, optVars>>

\* lines 250-256: M = div(U,F,mu)
PisoDiv ==
    /\ pc = "piso_div"
    /\ \E a \in Diagonals, s \in Vals : M' = [ap |-> a, Su |-> s]
    /\ hist' = Append(hist, "div")
    /\ pc' = "piso_stress"
    /\ UNCHANGED <<input, Terminated, mainVars, cfgVars, loopVars,
                   U, p, T, gP, F, api, po, lesVars, outVars, optVars>>

\* line 258: turb->addTurbulentStress(M)
PisoStress ==
    /\ pc = "piso_stress"
    /\ \E e \in Vals : M' = [M EXCEPT !.ap = RAdd(@, e)]
    /\ hist' = Append(hist, "stress")
    /\ pc' = "piso_time_terms"
    /\ UNCHANGED <<input, Terminated, mainVars, cfgVars, loopVars,
                   U, p, T, gP, F, api, po, lesVars, outVars, optVars>>

\* lines 262-273
PisoTimeTerms ==
    /\ pc = "piso_time_terms"
    /\ M' = TimeTerms(M, U, velocity_UR)
    /\ hist' = hist \o TimeEvents
    /\ pc' = "piso_momentum"
    /\ UNCHANGED <<input, Terminated, mainVars, cfgVars, loopVars,
                   U, p, T, gP, F, api, po, lesVars, outVars, optVars>>

\* line 276: Solve(M == gP)
PisoMomentum ==
    /\ pc = "piso_momentum"
    /\ U' \in Vals
    /\ hist' = Append(hist, "momentum")
    /\ pc' = "piso_api"
    /\ UNCHANGED <<input, Terminated, mainVars, cfgVars, loopVars,
                   p, T, gP, F, M, api, po, lesVars, outVars, optVars>>

\* line 278: api = 1 / M.ap
PisoApi ==
    /\ pc = "piso_api"
    /\ api' = RInv(M.ap)
    /\ hist' = Append(hist, "api")
    /\ j' = 0
    /\ pc' = "piso_corrector"
    /\ UNCHANGED <<input, Terminated, mainVars, cfgVars, step, start, i, n, k,
                   U, p, T, gP, F, M, po, lesVars, outVars, optVars>>

\* line 281: the test of the PISO loop
PisoCorrector ==
    /\ pc = "piso_corrector"
    /\ IF j < n_PISO
       THEN /\ pc' = "piso_ua"
            /\ UNCHANGED j
       ELSE /\ pc' = "piso_flux"
            /\ j' = 0
    /\ UNCHANGED <<input, Terminated, mainVars, cfgVars, step, start, i, n, k,
                   fieldVars, lesVars, outVars, hist, optVars>>

\* lines 283-289: U = getRHS(M) * api, and the pressure kept when steady
PisoUa ==
    /\ pc = "piso_ua"
    /\ \E rhs \in Vals : U' = RMul(rhs, api)
    /\ po' = IF Steady THEN p ELSE po
    /\ k' = 0
    /\ hist' = Append(hist, "ua")
    /\ pc' = "piso_ortho"
    /\ UNCHANGED <<input, Terminated, mainVars, cfgVars, step, start, i, n, j,
                   p, T, gP, F, M, api, lesVars, outVars, optVars>>

\* pressure solves for k < n_ORTHO only
PisoOrthoExclusive ==
    /\ pc = "piso_ortho"
    /\ IF k < n_ORTHO
       THEN /\ p' \in Vals
            /\ k' = k + 1
            /\ hist' = hist \o <<"plap", "poisson">>
            /\ UNCHANGED pc
       ELSE /\ p' = IF Steady THEN FieldRelax(p, po, pressure_UR) ELSE p
            /\ k' = 0
            /\ hist' = IF Steady THEN Append(hist, "prelax") ELSE hist
            /\ pc' = "piso_gradp"
    /\ UNCHANGED <<input, Terminated, mainVars, cfgVars, step, start, i, n, j,
                   U, T, gP, F, M, api, po, lesVars, outVars, optVars>>

\* lines 290-293: the pressure matrix lap(p,..) += div(..) is assembled and
\* solved n_ORTHO + 1 times, then the pressure is relaxed when steady
PisoOrtho ==
    /\ pc = "piso_ortho"
    /\ IF k <= n_ORTHO
       THEN /\ p' \in Vals
            /\ k' = k + 1
            /\ hist' = hist \o <<"plap", "poisson">>
            /\ UNCHANGED pc
       ELSE /\ p' = IF Steady THEN FieldRelax(p, po, pressure_UR) ELSE p
            /\ k' = 0
            /\ hist' = IF Steady THEN Append(hist, "prelax") ELSE hist
            /\ pc' = "piso_gradp"
    /\ UNCHANGED <<input, Terminated, mainVars, cfgVars, step, start, i, n, j,
                   U, T, gP, F, M, api, po, lesVars, outVars, optVars>>

\* line 295: gP = -gradV(p)
PisoGradP ==
    /\ pc = "piso_gradp"
    /\ \E g \in Vals : gP' = RNeg(g)
    /\ hist' = Append(hist, "gradp")
    /\ pc' = "piso_correct"
    /\ UNCHANGED <<input, Terminated, mainVars, cfgVars, loopVars,
                   U, p, T, F, M, api, po, lesVars, outVars, optVars>>

\* line 297: the explicit velocity correction
CorrectVelocity(u, g, a) == RSub(u, RMul(g, a))

\* a corrector that also updates the mass flux
PisoCorrectWithFlux ==
    /\ pc = "piso_correct"
    /\ U' = CorrectVelocity(U, gP, api)
    /\ F' = flx(RMul(rho, U'))
    /\ j' = j + 1
    /\ hist' = hist \o <<"correct", "flux">>
    /\ pc' = "piso_corrector"
    /\ UNCHANGED <<input, Terminated, mainVars, cfgVars, step, start, i, n, k,
                   p, T, gP, M, api, po, lesVars, outVars, optVars>>

\* lines 297-300
PisoCorrect ==
    /\ pc = "piso_correct"
    /\ U' = CorrectVelocity(U, gP, api)
    /\ j' = j + 1
    /\ hist' = Append(hist, "correct")
    /\ pc' = "piso_corrector"
    /\ UNCHANGED <<input, Terminated, mainVars, cfgVars, step, start, i, n, k,
                   p, T, gP, F, M, api, po, lesVars, outVars, optVars>>

\* lines 301-304: M and api leave scope, F = flx(rho * U)
PisoFlux ==
    /\ pc = "piso_flux"
    /\ F' = flx(RMul(rho, U))
    /\ M' = NoMatrix
    /\ api' = Zero
    /\ po' = Zero
    /\ hist' = Append(hist, "flux")
    /\ pc' = "piso_turb_solve"
    /\ UNCHANGED <<input, Terminated, mainVars, cfgVars, loopVars,
                   U, p, T, gP, lesVars, outVars, optVars>>

\* line 307: turb->solve(), the end of the pass
PisoTurbSolve ==
    /\ pc = "piso_turb_solve"
    /\ hist' = Append(hist, "turb")
    /\ n' = n + 1
    /\ pc' = "piso_deferred"
    /\ UNCHANGED <<input, Terminated, mainVars, cfgVars, step, start, i, j, k,
                   fieldVars, lesVars, outVars, optVars>>

\* lines 311-316: the running sums of the LES statistics
PisoAverage ==
    /\ pc = "piso_average"
    /\ IF LESaverage # 0
       THEN /\ Uavg' = RAdd(Uavg, U)
            /\ pavg' = RAdd(pavg, p)
            /\ Ustd' = RAdd(Ustd, RMul(U, U))
            /\ pstd' = RAdd(pstd, RMul(p, p))
            /\ samples' = [n |-> samples.n + 1,
                           U |-> RAdd(samples.U, U), UU |-> RAdd(samples.UU, RMul(U, U)),
                           p |-> RAdd(samples.p, p), pp |-> RAdd(samples.pp, RMul(p, p))]
       ELSE UNCHANGED lesVars
    /\ pc' = "piso_write"
    /\ UNCHANGED <<input, Terminated, mainVars, cfgVars, loopVars, fieldVars,
                   outVars, hist, optVars>>

\* lines 337-338: the mean written at step `at`
LesMean(sum, at) == RDiv(sum, R(at))

\* lines 335-343: the deviation written at step `at`
LesStd(squares, sum, at) ==
    LET nn == R(at)
        avg == LesMean(sum, at)
        sq == RAdd(squares, RMul(avg, RSub(RMul(nn, avg), RMul(R(2), sum))))
    IN  Sqrt(RDiv(sq, nn))

\* lines 331-357: the checkpoint, then the next step
PisoWrite ==
    /\ pc = "piso_write"
    /\ IF IsWriteStep(i)
       THEN /\ step' = i \div Controls.write_interval
            /\ emitted' = IF LESaverage # 0
                          THEN [index |-> step',
                                Uavg |-> LesMean(Uavg, i), Ustd |-> LesStd(Ustd, Uavg, i),
                                pavg |-> LesMean(pavg, i), pstd |-> LesStd(pstd, pavg, i)]
                          ELSE emitted
            /\ written' = Append(written, WriteCall("loop", i, step'))
       ELSE UNCHANGED <<step, emitted, written>>
    /\ i' = i + 1
    /\ pc' = "piso_loop"
    /\ UNCHANGED <<input, Terminated, mainVars, cfgVars, start, n, j, k,
                   fieldVars, lesVars, AllBConditions, hist, optVars>>

\* line 359: the "piso" list is unregistered
PisoReturn ==
    /\ pc = "piso_return"
    /\ ParamList_list' = ParamList_list \ {"piso"}
    /\ pc' = "main_return"
    /\ UNCHANGED <<input, Terminated, driver, exitCode, cout, sname, gBoundaries,
                   cfgVars, loopVars, fieldVars, lesVars, outVars, hist, optVars>>

(***************************************************************************)
(* diffusion()                                                             *)
(***************************************************************************)
\* lines 368-382
DiffusionReadParams ==
    /\ pc = "diffusion"
    /\ ParamList_list' = ParamList_list \cup {"diffusion"}
    /\ n_DEFERRED' = input.n_DEFERRED
    /\ Controls' = input.controls
    /\ pc' = "diffusion_read"
    /\ UNCHANGED <<input, Terminated, driver, exitCode, cout, sname, gBoundaries,
                   turb_model, LESaverage, needWallDist, n_PISO, n_ORTHO, Steady,
                   time_factor, loopVars, fieldVars, lesVars, outVars, hist, optVars>>

\* lines 385-397
DiffusionReadFields ==
    /\ pc = "diffusion_read"
    /\ step' = StartStep
    /\ start' = StartOf(step')
    /\ T' \in Vals
    /\ AllBConditions' = AllBConditions \o FieldBCs("T", "DIRICHLET")
    /\ written' = Append(written, WriteCall("start", 0, step'))
    /\ time_factor' = Controls.time_scheme_factor
    /\ Steady' = (Controls.state = STEADY)
    /\ n_DEFERRED' = IF Steady' THEN 0 ELSE n_DEFERRED
    /\ i' = start'
    /\ pc' = "diffusion_loop"
    /\ UNCHANGED <<input, Terminated, mainVars, Controls, turb_model, LESaverage,
                   needWallDist, n_PISO, n_ORTHO, n, j, k,
                   U, p, gP, F, M, api, po, lesVars, emitted, hist, optVars>>

\* lines 399-406
DiffusionLoop ==
    /\ pc = "diffusion_loop"
    /\ IF ContinueLoop
       THEN /\ n' = 0
            /\ pc' = "diffusion_deferred"
       ELSE /\ pc' = "diffusion_return"
            /\ UNCHANGED n
    /\ UNCHANGED <<input, Terminated, mainVars, cfgVars, step, start, i, j, k,
                   fieldVars, lesVars, outVars, hist, optVars>>

\* lines 408-411: the loop test, and M = -lap(T,mu)
DiffusionAssemble ==
    /\ pc = "diffusion_deferred"
    /\ IF n <= n_DEFERRED
       THEN /\ \E a \in Diagonals, s \in Vals : M' = [ap |-> a, Su |-> s]
            /\ hist' = <<"lap">>
            /\ pc' = "diffusion_time_terms"
       ELSE /\ pc' = "diffusion_write"
            /\ UNCHANGED <<M, hist>>
    /\ UNCHANGED <<input, Terminated, mainVars, cfgVars, loopVars,
                   U, p, T, gP, F, api, po, lesVars, outVars, optVars>>

\* lines 413-422
DiffusionTimeTerms ==
    /\ pc = "diffusion_time_terms"
    /\ M' = TimeTerms(M, T, t_UR)
    /\ hist' = hist \o TimeEvents
    /\ pc' = "diffusion_solve"
    /\ UNCHANGED <<input, Terminated, mainVars, cfgVars, loopVars,
                   U, p, T, gP, F, api, po, lesVars, outVars, optVars>>

\* lines 424-425: Solve(M), the end of the pass
DiffusionSolve ==
    /\ pc = "diffusion_solve"
    /\ T' \in Vals
    /\ M' = NoMatrix
    /\ hist' = Append(hist, "solve")
    /\ n' = n + 1
    /\ pc' = "diffusion_deferred"
    /\ UNCHANGED <<input, Terminated, mainVars, cfgVars, step, start, i, j, k,
                   U, p, gP, F, api, po, lesVars, outVars, optVars>>

\* lines 428-433
DiffusionWrite ==
    /\ pc = "diffusion_write"
    /\ IF IsWriteStep(i)
       THEN /\ step' = i \div Controls.write_interval
            /\ written' = Append(written, WriteCall("loop", i, step'))
       ELSE UNCHANGED <<step, written>>
    /\ i' = i + 1
    /\ pc' = "diffusion_loop"
    /\ UNCHANGED <<input, Terminated, mainVars, cfgVars, start, n, j, k,
                   fieldVars, lesVars, emitted, AllBConditions, hist, optVars>>

\* line 434
DiffusionReturn ==
    /\ pc = "diffusion_return"
    /\ ParamList_list' = ParamList_list \ {"diffusion"}
    /\ pc' = "main_return"
    /\ UNCHANGED <<input, Terminated, driver, exitCode, cout, sname, gBoundaries,
                   cfgVars, loopVars, fieldVars, lesVars, outVars, hist, optVars>>

(***************************************************************************)
(* transport()                                                             *)
(***************************************************************************)
\* lines 444-459
TransportReadParams ==
    /\ pc = "transport"
    /\ ParamList_list' = ParamList_list \cup {"transport"}
    /\ n_DEFERRED' = input.n_DEFERRED
    /\ Controls' = input.controls
    /\ pc' = "transport_read"
    /\ UNCHANGED <<input, Terminated, driver, exitCode, cout, sname, gBoundaries,
                   turb_model, LESaverage, needWallDist, n_PISO, n_ORTHO, Steady,
                   time_factor, loopVars, fieldVars, lesVars, outVars, hist, optVars>>

\* lines 462-474
TransportReadFields ==
    /\ pc = "transport_read"
    /\ step' = StartStep
    /\ start' = StartOf(step')
    /\ U' \in Vals
    /\ T' \in Vals
    /\ AllBConditions' = AllBConditions \o FieldBCs("U", "DIRICHLET")
                                        \o FieldBCs("T", "DIRICHLET")
    /\ written' = Append(written, WriteCall("start", 0, step'))
    /\ time_factor' = Controls.time_scheme_factor
    /\ Steady' = (Controls.state = STEADY)
    /\ n_DEFERRED' = IF Steady' THEN 0 ELSE n_DEFERRED
    /\ i' = start'
    /\ pc' = "transport_loop"
    /\ UNCHANGED <<input, Terminated, mainVars, Controls, turb_model, LESaverage,
                   needWallDist, n_PISO, n_ORTHO, n, j, k,
                   p, gP, F, M, api, po, lesVars, emitted, hist, optVars>>

\* lines 476-483
TransportLoop ==
    /\ pc = "transport_loop"
    /\ IF ContinueLoop
       THEN /\ n' = 0
            /\ pc' = "transport_deferred"
       ELSE /\ pc' = "transport_return"
            /\ UNCHANGED n
    /\ UNCHANGED <<input, Terminated, mainVars, cfgVars, step, start, i, j, k,
                   fieldVars, lesVars, outVars, hist, optVars>>

\* lines 486-491: the loop test, F = flx(rho * U) and M = div(T,F,mu) - lap(T,mu)
TransportAssemble ==
    /\ pc = "transport_deferred"
    /\ IF n <= n_DEFERRED
       THEN /\ F' = flx(RMul(rho, U))
            /\ \E a \in Diagonals, s \in Vals : M' = [ap |-> a, Su |-> s]
            /\ hist' = <<"flux", "div", "lap">>
            /\ pc' = "transport_time_terms"
       ELSE /\ pc' = "transport_write"
            /\ UNCHANGED <<F, M, hist>>
    /\ UNCHANGED <<input, Terminated, mainVars, cfgVars, loopVars,
                   U, p, T, gP, api, po, lesVars, outVars, optVars>>

\* lines 493-502
TransportTimeTerms ==
    /\ pc = "transport_time_terms"
    /\ M' = TimeTerms(M, T, t_UR)
    /\ hist' = hist \o TimeEvents
    /\ pc' = "transport_solve"
    /\ UNCHANGED <<input, Terminated, mainVars, cfgVars, loopVars,
                   U, p, T, gP, F, api, po, lesVars, outVars, optVars>>

\* lines 504-505: Solve(M), the end of the pass
TransportSolve ==
    /\ pc = "transport_solve"
    /\ T' \in Vals
    /\ M' = NoMatrix
    /\ hist' = Append(hist, "solve")
    /\ n' = n + 1
    /\ pc' = "transport_deferred"
    /\ UNCHANGED <<input, Terminated, mainVars, cfgVars, step, start, i, j, k,
                   U, p, gP, F, api, po, lesVars, outVars, optVars>>

\* lines 507-512
TransportWrite ==
    /\ pc = "transport_write"
    /\ IF IsWriteStep(i)
       THEN /\ step' = i \div Controls.write_interval
            /\ written' = Append(written, WriteCall("loop", i, step'))
       ELSE UNCHANGED <<step, written>>
    /\ i' = i + 1
    /\ pc' = "transport_loop"
    /\ UNCHANGED <<input, Terminated, mainVars, cfgVars, start, n, j, k,
                   fieldVars, lesVars, emitted, AllBConditions, hist, optVars>>

\* line 513
TransportReturn ==
    /\ pc = "transport_return"
    /\ ParamList_list' = ParamList_list \ {"transport"}
    /\ pc' = "main_return"
    /\ UNCHANGED <<input, Terminated, driver, exitCode, cout, sname, gBoundaries,
                   cfgVars, loopVars, fieldVars, lesVars, outVars, hist, optVars>>

(***************************************************************************)
(* potential()                                                             *)
(***************************************************************************)
\* lines 535-559: parameters, the start checkpoint, the internal field zeroed
PotentialRead ==
    /\ pc = "potential"
    /\ ParamList_list' = ParamList_list \cup {"potential"}
    /\ n_ORTHO' = input.n_ORTHO
    /\ Controls' = input.controls
    /\ step' = input.controls.start_step \div input.controls.write_interval
    /\ start' = input.controls.write_interval * step' + 1
    /\ U' = Zero
    /\ p' = Zero
    /\ AllBConditions' = AllBConditions \o FieldBCs("U", "DIRICHLET")
                                        \o FieldBCs("p", "NEUMANN")
    /\ k' = 0
    /\ pc' = "potential_solve"
    /\ UNCHANGED <<input, Terminated, driver, exitCode, cout, sname, gBoundaries,
                   turb_model, LESaverage, needWallDist, n_PISO, n_DEFERRED, Steady,
                   time_factor, i, n, j, T, gP, F, M, api, po, lesVars,
                   written, emitted, hist, optVars>>

\* lines 562-569: the Poisson solves, then U -= grad(p)
PotentialSolve ==
    /\ pc = "potential_solve"
    /\ IF k <= n_ORTHO
       THEN /\ p' \in Vals
            /\ k' = k + 1
            /\ UNCHANGED <<U, pc>>
       ELSE /\ \E g \in Vals : U' = RSub(U, g)
            /\ k' = 0
            /\ pc' = "potential_write"
            /\ UNCHANGED p
    /\ UNCHANGED <<input, Terminated, mainVars, cfgVars, step, start, i, n, j,
                   T, gP, F, M, api, po, lesVars, outVars, hist, optVars>>

\* lines 572-574
PotentialWrite ==
    /\ pc = "potential_write"
    /\ written' = Append(written, WriteCall("final", 0, step))
    /\ ParamList_list' = ParamList_list \ {"potential"}
    /\ pc' = "main_return"
    /\ UNCHANGED <<input, Terminated, driver, exitCode, cout, sname, gBoundaries,
                   cfgVars, loopVars, fieldVars, lesVars, emitted, AllBConditions,
                   hist, optVars>>

(***************************************************************************)
(* The program.                                                            *)
(***************************************************************************)
Next ==
    \/ SignalHandler
    \/ MainReadParams \/ MainMesh \/ MainCallSolver \/ MainReturn
    \/ PisoReadParams \/ PisoSelectTurb \/ PisoReadFields \/ PisoWallDist
    \/ WallDistSolve
    \/ PisoTime \/ PisoLoop \/ PisoDeferred \/ PisoDiv \/ PisoStress
    \/ PisoTimeTerms \/ PisoMomentum \/ PisoApi \/ PisoCorrector \/ PisoUa
    \/ PisoOrtho \/ PisoGradP \/ PisoCorrect \/ PisoFlux \/ PisoTurbSolve
    \/ PisoAverage \/ PisoWrite \/ PisoReturn
    \/ DiffusionReadParams \/ DiffusionReadFields \/ DiffusionLoop
    \/ DiffusionAssemble \/ DiffusionTimeTerms \/ DiffusionSolve
    \/ DiffusionWrite \/ DiffusionReturn
    \/ TransportReadParams \/ TransportReadFields \/ TransportLoop
    \/ TransportAssemble \/ TransportTimeTerms \/ TransportSolve
    \/ TransportWrite \/ TransportReturn
    \/ PotentialRead \/ PotentialSolve \/ PotentialWrite

\* every case of the configuration texts, the loop counts and the time loop
Spec == Init /\ [][Next]_vars
\* the arithmetic of a step, over the value range 0..MaxVal
SpecNum == InitNum /\ [][Next]_vars
\* the LES statistics, over the value range 0..MaxVal
SpecLes == InitLes /\ [][Next]_vars

(***************************************************************************)
(* Util::Option on its own: an option list and a text read into it.        *)
(***************************************************************************)
OptionChars == {"a", "A", "b"}

RECURSIVE TextsOfLen(_)
TextsOfLen(len) ==
    IF len = 0 THEN {<<>>}
    ELSE {Append(t, c) : t \in TextsOfLen(len - 1), c \in OptionChars}

OptionTexts == UNION {TextsOfLen(len) : len \in 0..MaxLen}
SolverList == <<Str_piso, Str_diffusion, Str_transport, Str_potential>>
OptionLists ==
    {<<>>} \cup {<<a>> : a \in OptionTexts} \cup {<<a, b>> : a, b \in OptionTexts}

InitOption ==
    /\ InitWith({CaseOf(Str_piso, TurbList[1], BoolList[1], 1, 0, 0,
                        ControlsOf(0, 1, 1, STEADY, One), {1})}, "option")
    /\ \/ optList \in OptionLists /\ optStr \in OptionTexts
       \/ optList = TurbList /\ optStr \in TurbTexts
       \/ optList = BoolList /\ optStr \in BoolTexts
       \/ optList = SolverList /\ optStr \in SolverTexts

\* operator >> of Option: *(p.val) = p.getID(str)
OptionRead ==
    /\ pc = "option"
    /\ optVal' = getID(optList, optStr)
    /\ cout' = IF getIDUnknown(optList, optStr)
               THEN cout \cup {<<"Unknown parameter", optStr>>} ELSE cout
    /\ pc' = "option_read"
    /\ UNCHANGED <<input, Terminated, driver, exitCode, sname, ParamList_list,
                   gBoundaries, cfgVars, loopVars, fieldVars, lesVars, outVars,
                   hist, optList, optStr, cmpRes>>

\* Util::compare of one name of the list with the text
OptionCompare ==
    /\ pc = "option_read"
    /\ cmpRes = <<>>
    /\ \E x \in 1..Len(optList) : cmpRes' = <<x, compare(optList[x], optStr)>>
    /\ UNCHANGED <<input, pc, Terminated, mainVars, cfgVars, loopVars, fieldVars,
                   lesVars, outVars, hist, optList, optStr, optVal>>

NextOption == OptionRead \/ OptionCompare

SpecOption == InitOption /\ [][NextOption]_vars

(***************************************************************************)
(* Properties.                                                             *)
(***************************************************************************)
Count(seq, e) == Cardinality({x \in DOMAIN seq : seq[x] = e})
Has(seq, e) == \E x \in DOMAIN seq : seq[x] = e

\* the place of an operation in a deferred pass of piso
PhaseOf(e) ==
    CASE e = "div" -> 1
      [] e = "stress" -> 2
      [] e \in {"relax", "cn", "ddt"} -> 3
      [] e = "momentum" -> 4
      [] e = "api" -> 5
      [] e \in {"ua", "plap", "poisson", "prelax", "gradp", "correct"} -> 6
      [] e = "flux" -> 7
      [] e = "turb" -> 8

\* a deferred pass of piso has run to its end and no other has begun
PassDone ==
    \/ pc = "piso_deferred" /\ n > 0
    \/ pc \in {"piso_average", "piso_write"}

\* C1: in every deferred pass of piso the operations come in the order div,
\* addTurbulentStress, Relax or the time terms, the momentum solve, api, the
\* PISO correctors, the flux update, turb->solve(); none of them is skipped; the
\* flux update and turb->solve() happen once per pass, the flux update only
\* after all n_PISO correctors have finished.
C1_PassOrder ==
    driver = "piso" =>
        /\ \A x, y \in DOMAIN hist : x < y => PhaseOf(hist[x]) <= PhaseOf(hist[y])
        /\ \A x \in DOMAIN hist : \A q \in 1..(PhaseOf(hist[x]) - 1) :
              q = 6 \/ \E y \in 1..(x - 1) : PhaseOf(hist[y]) = q
        /\ \A e \in {"div", "stress", "momentum", "api", "flux", "turb"} :
              Count(hist, e) <= 1
        /\ Count(hist, "relax") + Count(hist, "ddt") <= 1
        /\ Has(hist, "flux") => Count(hist, "correct") = input.n_PISO
        /\ PassDone => Count(hist, "flux") = 1 /\ Count(hist, "turb") = 1

\* a second pass has ended after two correctors
C1_Witness ==
    /\ pc = "piso_deferred" /\ n = 2
    /\ n_PISO = 2
    /\ Count(hist, "correct") = 2
    /\ hist[Len(hist)] = "turb"

\* C2: the corrector leaves U = U_a + gP * api.
C2_VelocityCorrection ==
    [][(pc = "piso_correct" /\ pc' # pc) => U' = RAdd(U, RMul(gP, api))]_vars

TimeLoopTests == {"piso_loop", "diffusion_loop", "transport_loop"}
StepBodies == {"piso_deferred", "diffusion_deferred", "transport_deferred"}

\* C3: with Terminated set during a step, the driver does not start the next
\* step at the following test of its time loop.
C3_TerminatedStops ==
    [][(Terminated /\ pc \in TimeLoopTests /\ i > start) => pc' \notin StepBodies]_vars

\* the positions of a solver step, from the first test of a time loop on
SolverSteps ==
    {"piso_loop", "piso_deferred", "piso_div", "piso_stress", "piso_time_terms",
     "piso_momentum", "piso_api", "piso_corrector", "piso_ua", "piso_ortho",
     "piso_gradp", "piso_correct", "piso_flux", "piso_turb_solve",
     "piso_average", "piso_write"}

\* the letters a and b are the same letter, in either case
SameLetter(a, b) ==
    a = b \/ \E x \in 1..26 : {a, b} = {LowerCase[x], UpperCase[x]}

EqIgnoreCase(s1, s2) ==
    Len(s1) = Len(s2) /\ \A x \in 1..Len(s1) : SameLetter(s1[x], s2[x])

UnknownEnumRead ==
    /\ driver = "piso"
    /\ pc # "piso"
    /\ \A x \in 1..Len(TurbList) : ~EqIgnoreCase(TurbList[x], input.turbulence_model)

\* C4: after an enumeration text that matches no name was read, a diagnostic
\* has been printed, the variable keeps its value, no solver step is executed
\* and the process exits with code 1.
C4_UnknownEnumFatal ==
    UnknownEnumRead =>
        /\ <<"Unknown parameter", input.turbulence_model>> \in cout
        /\ turb_model = KE
        /\ pc \notin SolverSteps
        /\ exitCode \in {-1, 1}

SolverNamed == \E x \in 1..4 : EqIgnoreCase(input.solver, SolverList[x])

\* C5: the exit code is 1 when the rank's directory cannot be entered or the
\* solver name is none of the four, and is 0 only when one of the four drivers
\* was called and has returned.
C5_ExitCodes ==
    /\ (exitCode # -1 /\ ((input.n_hosts > 1 /\ ~input.cdOk) \/ ~SolverNamed))
          => exitCode = 1
    /\ exitCode = 0 => driver \in {"piso", "diffusion", "transport", "potential"}

\* the indices (from 0) of the names equal to the text but for letter case
Matching == {x \in 0..(Len(optList) - 1) : EqIgnoreCase(optList[x + 1], optStr)}

\* C6: getID returns the smallest index whose name equals the text but for
\* letter case, when there is one, and compare returns 0 exactly for two texts
\* equal but for letter case.
C6_CaseInsensitive ==
    /\ (pc = "option_read" /\ Matching # {})
          => optVal \in Matching /\ \A x \in Matching : optVal <= x
    /\ cmpRes # <<>>
          => (cmpRes[2] = 0 <=> EqIgnoreCase(optList[cmpRes[1]], optStr))

\* the second of two names that differ by case only is passed over, and a
\* comparison of texts in different cases gave 0
C6_Witness ==
    /\ pc = "option_read"
    /\ Len(optList) = 2
    /\ optList[1] # optList[2] /\ optList[2] # optStr /\ optList[1] # optStr
    /\ Matching = {0, 1}
    /\ optVal = 0
    /\ cmpRes = <<2, 0>>

LoopWrites == SelectSeq(written, LAMBDA w : w.site = "loop")
TimeStepping == driver \in {"piso", "diffusion", "transport"}

\* C7: in the time loop a checkpoint is written at step i exactly when i is a
\* multiple of write_interval, with index i / write_interval; the indices
\* written are consecutive, increasing, and above the checkpoint read.
C7_Checkpoints ==
    TimeStepping =>
        /\ \A x \in DOMAIN LoopWrites :
              /\ LoopWrites[x].i % input.controls.write_interval = 0
              /\ LoopWrites[x].index * input.controls.write_interval = LoopWrites[x].i
              /\ LoopWrites[x].index > written[1].index
        /\ \A x \in 1..(Len(LoopWrites) - 1) :
              LoopWrites[x + 1].index = LoopWrites[x].index + 1
        /\ pc \in TimeLoopTests =>
              \A s \in start..(i - 1) :
                  s % input.controls.write_interval = 0
                      => \E x \in DOMAIN LoopWrites : LoopWrites[x].i = s

\* a restart that has written two checkpoints and passed a step without one
C7_Witness ==
    /\ TimeStepping
    /\ pc \in TimeLoopTests
    /\ input.controls.write_interval = 2
    /\ input.controls.start_step >= 2
    /\ Len(LoopWrites) = 1
    /\ i = start + 2

\* a checkpoint has just been written with the LES statistics
StatsWritten ==
    /\ pc = "piso_loop"
    /\ LESaverage # 0
    /\ i > start
    /\ IsWriteStep(i - 1)

SampleMean(sum) == RDiv(sum, R(samples.n))
SampleStd(squares, sum) ==
    Sqrt(RSub(RDiv(squares, R(samples.n)), RMul(SampleMean(sum), SampleMean(sum))))

\* C8: the mean and the deviation written at a checkpoint are those of the
\* samples added to the running sums so far.
C8_Statistics ==
    StatsWritten =>
        /\ emitted.Uavg = SampleMean(samples.U)
        /\ emitted.Ustd = SampleStd(samples.UU, samples.U)
        /\ emitted.pavg = SampleMean(samples.p)
        /\ emitted.pstd = SampleStd(samples.pp, samples.p)

TimeTermsAt == {"piso_time_terms", "diffusion_time_terms", "transport_time_terms"}

\* the matrix a transient pass solves, with the rewrite done when `rewrite`
AfterTimeTerms(rewrite) ==
    LET phi == IF pc = "piso_time_terms" THEN U ELSE T
        theta == input.controls.time_scheme_factor
        ap == IF rewrite THEN RMul(theta, M.ap) ELSE M.ap
        Su == IF rewrite
              THEN RSub(RMul(theta, M.Su), RMul(RSub(One, theta), RMul(M.ap, phi)))
              ELSE M.Su
    IN  [ap |-> RAdd(ap, RDiv(rho, input.controls.dt)),
         Su |-> RAdd(Su, RDiv(RMul(rho, phi), input.controls.dt))]

Transient == input.controls.state = TRANSIENT

\* C9 as stated: the rewrite is done exactly when theta < 1.
C9_RewriteBelowOne ==
    [][(pc \in TimeTermsAt /\ pc' # pc /\ Transient)
          => M' = AfterTimeTerms(RLess(input.controls.time_scheme_factor, One))]_vars

\* C9: in a transient pass the rewrite is done exactly when theta differs from
\* 1; M * phi is taken with the matrix before it is scaled, and the ddt terms
\* are added unscaled.
C9_RewriteUnlessOne ==
    [][(pc \in TimeTermsAt /\ pc' # pc /\ Transient)
          => M' = AfterTimeTerms(input.controls.time_scheme_factor # One)]_vars

\* the rewrite was done with theta = 3/2 on a nonzero field
C9_Witness ==
    /\ pc = "piso_momentum"
    /\ Transient
    /\ input.controls.time_scheme_factor = Frac(3, 2)
    /\ U # Zero
    /\ Has(hist, "cn")
    /\ M.ap = Frac(5, 2)

\* the positions after the initial field read of a driver
AfterFieldRead ==
    pc \in SolverSteps \cup {"piso_walldist", "walldist_poisson", "piso_time", "piso_return"}
        \cup {"diffusion_loop", "diffusion_deferred", "diffusion_time_terms",
              "diffusion_solve", "diffusion_write", "diffusion_return"}
        \cup {"transport_loop", "transport_deferred", "transport_time_terms",
              "transport_solve", "transport_write", "transport_return"}
        \cup {"potential_solve", "potential_write"}

DriverReturns ==
    pc \in {"piso_return", "diffusion_return", "transport_return", "potential_write"}

WallDistRequested ==
    pc = "piso_walldist" /\ pc' # pc
        /\ (EqIgnoreCase(input.turbulence_model, TurbList[2])
            \/ EqIgnoreCase(input.turbulence_model, TurbList[7]))

NameHasWALL(name) ==
    \E x \in 1..(Len(name) - 3) : SubSeq(name, x, x + 3) = <<"W", "A", "L", "L">>

\* the conditions of phi in the BC registry, in the order of their creation
PhiBCs == SelectSeq(AllBConditions, LAMBDA b : b.fName = "phi")

\* the wall-distance runs that have ended (each ends with a write of yWall)
WallDistRuns == Cardinality({x \in DOMAIN written : written[x].site = "walldist"})

\* the configured turbulence model is MIXING_LENGTH or LES
WallDistModel ==
    \/ EqIgnoreCase(input.turbulence_model, TurbList[2])
    \/ EqIgnoreCase(input.turbulence_model, TurbList[7])

\* one condition of phi per patch: DIRICHLET 0 on a WALL patch, else NEUMANN 0
PhiBCsComplete ==
    /\ Len(PhiBCs) = Len(gBoundaries)
    /\ \A x \in 1..Len(gBoundaries) :
          /\ PhiBCs[x].bname = gBoundaries[x]
          /\ PhiBCs[x].cname = IF NameHasWALL(gBoundaries[x]) THEN "DIRICHLET" ELSE "NEUMANN"
          /\ PhiBCs[x].value = Zero

\* piso is past the place where the wall distance is computed
PastWallDist ==
    driver = "piso" /\ pc \notin {"piso", "piso_turb", "piso_read", "piso_walldist",
                                  "walldist_poisson"}

\* C11: Mesh::calc_walldist runs once per piso run, before the first time
\* step, exactly when the turbulence model is MIXING_LENGTH or LES; when it
\* runs, every patch gets exactly one condition of phi, DIRICHLET 0 if its
\* name contains WALL and NEUMANN 0 otherwise, all before the Poisson solve.
C11_WallDistOnce ==
    /\ (driver = "piso" /\ pc \in {"piso", "piso_turb", "piso_read", "piso_walldist"})
          => WallDistRuns = 0 /\ PhiBCs = <<>>
    /\ pc = "walldist_poisson"
          => WallDistModel /\ WallDistRuns = 0 /\ PhiBCsComplete
    /\ PastWallDist
          => IF WallDistModel
             THEN WallDistRuns = 1 /\ PhiBCsComplete
             ELSE WallDistRuns = 0 /\ PhiBCs = <<>>
    /\ driver # "piso" => WallDistRuns = 0 /\ PhiBCs = <<>>

\* a time step runs after the wall distance of a mesh with a WALL patch and
\* a patch whose name has the word in small letters
C11_Witness ==
    /\ pc = "piso_deferred"
    /\ WallDistRuns = 1
    /\ gBoundaries = <<Str_WALL, Str_wall>>
    /\ PhiBCs[1].cname = "DIRICHLET"
    /\ PhiBCs[2].cname = "NEUMANN"

\* the pressure solves of the corrector that is running: those after its "ua"
SolvesOfCorrector ==
    LET from == CHOOSE x \in DOMAIN hist :
                    hist[x] = "ua" /\ \A y \in DOMAIN hist : hist[y] = "ua" => y <= x
    IN  Count(SubSeq(hist, from + 1, Len(hist)), "poisson")

\* the counts of one deferred pass and of one corrector, for the configured
\* n_PISO and n_ORTHO
PassCounts ==
    /\ PassDone =>
          /\ Count(hist, "momentum") = 1
          /\ Count(hist, "ua") = input.n_PISO
          /\ Count(hist, "correct") = input.n_PISO
          /\ Count(hist, "poisson") = input.n_PISO * (input.n_ORTHO + 1)
    /\ pc \in {"piso_gradp", "piso_correct"} => SolvesOfCorrector = input.n_ORTHO + 1

\* with n_PISO = 0 no step of the time loop changes p or gP
NoCorrectorNoPressure ==
    [][(input.n_PISO = 0 /\ pc \in SolverSteps) => p' = p /\ gP' = gP]_vars

\* C12 as stated: per outer step of piso the deferred loop runs n_DEFERRED + 1
\* passes for any configured n_DEFERRED; each pass has one momentum solve and
\* n_PISO correctors, each corrector n_ORTHO + 1 pressure solves; with
\* n_PISO = 0 the pressure and its gradient are never modified.
C12_LoopCounts ==
    /\ [](driver = "piso" =>
            /\ pc = "piso_average" => n = input.n_DEFERRED + 1
            /\ PassCounts)
    /\ NoCorrectorNoPressure

\* C12: per outer step of piso the deferred loop runs n_DEFERRED + 1 passes
\* when the state is TRANSIENT and one pass when it is STEADY (n_DEFERRED is
\* then replaced by 0); each pass has one momentum solve and n_PISO
\* correctors, each corrector n_ORTHO + 1 pressure solves; with n_PISO = 0 the
\* pressure and its gradient are never modified.
C12_LoopCountsByState ==
    /\ [](driver = "piso" =>
            /\ pc = "piso_average" =>
                  n = IF input.controls.state = STEADY THEN 1 ELSE input.n_DEFERRED + 1
            /\ PassCounts)
    /\ NoCorrectorNoPressure

\* a steady step has ended after one pass of two correctors with three
\* pressure solves each, n_DEFERRED = 2 being configured
C12_Witness ==
    /\ pc = "piso_average"
    /\ input.controls.state = STEADY
    /\ input.n_DEFERRED = 2
    /\ n = 1
    /\ Count(hist, "correct") = 2
    /\ Count(hist, "poisson") = 6

\* the operations that assemble a matrix, solve one, and treat one
Assemblies == {"div", "lap", "plap"}
Solves == {"momentum", "poisson", "solve"}
Treatments == {"relax", "ddt"}

\* what the matrix solved at place x of the pass received since its assembly
TreatmentsOf(x) ==
    LET from == CHOOSE y \in 1..x :
                    hist[y] \in Assemblies
                        /\ \A z \in 1..x : hist[z] \in Assemblies => z <= y
    IN  SelectSeq(SubSeq(hist, from, x), LAMBDA e : e \in Treatments)

StateSteady == input.controls.state = STEADY

\* Relax when steady, the ddt term when transient
OneTreatment(x) == TreatmentsOf(x) = IF StateSteady THEN <<"relax">> ELSE <<"ddt">>

\* a steady outer step leaves the deferred loop after one pass
SteadyOnePass ==
    (StateSteady /\ pc \in {"piso_average", "diffusion_write", "transport_write"})
        => n = 1

\* the pressure kept at the start of a corrector, when steady, is the one the
\* solved pressure is relaxed against; a transient corrector keeps the solved one
PressureRelaxation ==
    [][/\ (pc = "piso_ua" /\ pc' # pc /\ StateSteady) => po' = p
       /\ (pc = "piso_ortho" /\ pc' = "piso_ortho") => po' = po
       /\ (pc = "piso_ortho" /\ pc' = "piso_gradp") =>
             p' = IF StateSteady THEN FieldRelax(p, po, pressure_UR) ELSE p]_vars

\* C13 as stated: in piso, diffusion and transport every matrix that is
\* solved received exactly one of Relax (when STEADY) and the ddt term (when
\* TRANSIENT); a steady step runs one deferred pass whatever n_DEFERRED was
\* configured; in piso the pressure is relaxed against the value kept before
\* the corrector's Poisson solves only when STEADY.
C13_OneTreatment ==
    /\ [](TimeStepping =>
            /\ \A x \in DOMAIN hist : hist[x] \in Solves => OneTreatment(x)
            /\ SteadyOnePass)
    /\ PressureRelaxation

\* C13: the matrix M of each deferred pass of piso, diffusion and transport
\* received exactly one of Relax (when STEADY) and the ddt term (when
\* TRANSIENT) before it is solved, and the pressure matrix of a piso corrector
\* received neither; a steady step runs one deferred pass whatever n_DEFERRED
\* was configured; in piso the pressure is relaxed against the value kept
\* before the corrector's Poisson solves only when STEADY.
C13_OneTreatmentOfM ==
    /\ [](TimeStepping =>
            /\ \A x \in DOMAIN hist :
                  /\ hist[x] \in {"momentum", "solve"} => OneTreatment(x)
                  /\ hist[x] = "poisson" => TreatmentsOf(x) = <<>>
            /\ SteadyOnePass)
    /\ PressureRelaxation

\* a steady step of piso has ended after one pass, n_DEFERRED = 1 being
\* configured, with a pressure half way between the kept and the solved one
C13_Witness ==
    /\ pc = "piso_average"
    /\ StateSteady
    /\ input.n_DEFERRED = 1
    /\ n = 1
    /\ Has(hist, "relax") /\ Has(hist, "poisson") /\ Has(hist, "prelax")
    /\ p = Frac(1, 2)

====
